---- MODULE Spec2Model ----
(***************************************************************************)
(* Model of the debate session orchestrator (DebateManager) of the         *)
(* bot-debate backend: one debate session, its two participant slots, its  *)
(* four timers, the per-connection heartbeat monitor, the result           *)
(* synthesizer and the observer broadcast queue.                           *)
(*                                                                         *)
(* Granularity.  A handler runs as one step, except where the source       *)
(* hands work to another goroutine or holds no lock across a window other  *)
(* goroutines can enter:                                                   *)
(*   - startDebate runs in its own goroutine after BotLogin returns;       *)
(*   - a timer that expires starts its callback in a new goroutine, which  *)
(*     Stop() can no longer cancel (cbPending);                            *)
(* The relay that drains the broadcast queue reads the registry and writes *)
(* to observer sockets only; it changes nothing a participant or a timer   *)
(* can see, so broadcast is kept as the sequence of events put on the      *)
(* queue.                                                                  *)
(***************************************************************************)
EXTENDS Integers, Sequences, FiniteSets, TLC

\* ---------------------------------------------------------------- bounds
MaxRounds == 2      \* total_rounds is drawn from 1..MaxRounds
MaxLog == 4         \* speeches are accepted while Len(DebateLog) < MaxLog
MaxEnds == 2        \* endDebate runs while fewer than MaxEnds debate_end were sent
MaxPending == 1     \* timer callbacks started and not yet run, over all timers
MaxSessions == 3    \* debates created, where several sessions are kept
MaxEvents == 4      \* events the sessions of the relay produce
MaxSubs == 2        \* subscribe_debate messages of the observers
MaxEntries == 8     \* transcript entries of a side given to the scorer

\* ------------------------------------------------------ program constants
MissedPingLimit == 3
BroadcastCap == 100
FallbackBase == 45
FallbackPerSpeech == 2
FallbackCap == 50
WinMargin == 5
NeutralScore == 50

\* ------------------------------------------------------------ input sets
Slots == {"A", "B"}
Kinds == {"waiting", "speech", "inactivity", "maxduration"}
NoBot == [name |-> "", uuid |-> << "", "" >>, ident |-> <<>>, key |-> ""]

\* login requests: the first two are two instances of one bot, their uuids
\* alike in the first 8 characters; the third reuses the uuid of the first
\* under another name
Logins ==
    { [name |-> "alpha", prefix |-> "00000000", rest |-> "a"],
      [name |-> "alpha", prefix |-> "00000000", rest |-> "b"],
      [name |-> "beta",  prefix |-> "00000000", rest |-> "a"] }

\* trimmed content lengths of a speech, relative to [min,max]
ContentLens == {"short", "ok", "long"}

\* bot_uuid values of logins that name no session
PoolUuids == {"u1", "u2"}

\* sessions and observer connections of the relay
RelaySessions == {"d1", "d2"}
Observers == {"o1", "o2"}
NoSession == [status |-> "none", inReg |-> FALSE, hasResult |-> FALSE,
              joined |-> 0, version |-> 0]
NoBroadcast == [debate |-> "", kind |-> "", n |-> 0]

\* an observer that has received nothing yet
NoReceived == [debate |-> "", kind |-> "", n |-> 0, snapshot |-> FALSE]

\* replies of the external judge: a transport error, a reply without JSON,
\* a well-formed verdict, a verdict with an unknown winner and a score above
\* the range, a verdict with a score below the range
NoReply == [kind |-> "error", winner |-> "", ss |-> 0, os |-> 0]
JudgeReplies ==
    { NoReply,
      [kind |-> "nojson", winner |-> "", ss |-> 0, os |-> 0],
      [kind |-> "json", winner |-> "supporting", ss |-> 70, os |-> 30],
      [kind |-> "json", winner |-> "bogus", ss |-> 101, os |-> 60],
      [kind |-> "json", winner |-> "opposing", ss |-> 40, os |-> 0 - 1] }

VARIABLES
    judgeOn,          \* chatgptClient != nil
    inRegistry,       \* the session is in dm.debates
    status,           \* Debate.Status ("none" before CreateDebate)
    dbStatus,         \* debates.status in storage
    totalRounds,      \* Debate.TotalRounds
    currentRound,     \* Debate.CurrentRound
    BotA, BotB,       \* the two slots
    SupportingBot,    \* "none", or the slot the pointer refers to
    OpposingBot,
    DebateLog,        \* the transcript
    LastSpeaker,      \* identifier, or <<>> for ""
    WaitingTimer, TimeoutTimer, InactivityTimer, MaxDurationTimer,
    cbPending,        \* per timer kind: callbacks started and not yet run
    waitingCb,        \* where the join-wait callback is: "none", "mark", "delete"
    startMsgs,        \* per slot: the debate_start messages written to it
    startPending,     \* the startDebate goroutine is spawned and sleeping
    reader,           \* per slot: the connection's read loop
    broadcast,        \* dm.broadcast: the events put on the observer queue
    dbResult,         \* debate_results row of the session, or NoResult
    endsSent,         \* per slot: debate_end messages written to its connection
    endsQueued,       \* debate_end messages put on the broadcast queue
    lastEnd,          \* the debate_end endDebate built last, or NoEnd
    lastReply,        \* the last submission or login and the reply to its
                      \* sender, where a specification records them
    missedPings,      \* per slot: the heartbeat's count of probes not answered
    hbPc,             \* per slot: where the heartbeat goroutine stands
    hbReg,            \* per slot: the count the goroutine read to increment
    probeOpen,        \* per slot: the last probe has no pong yet
    missedRun,        \* per slot: probes in a row that had no pong by the
                      \* next tick
    pool,             \* the debates table in creation order, with joined bots
    poolReply,        \* the last login without a session id and its reply
    rSess,            \* relay: per session its status, registry membership,
                      \* stored result, joined bots and events so far
    rQueue,           \* relay: the broadcast channel
    rConns,           \* relay: FrontendConns of each session
    rObs,             \* relay: per observer the position of its handler, its
                      \* debateID variable and the subscribe messages it sent
    rRecv,            \* relay: per observer the message written to it last
    rRelay,           \* relay: the message handleBroadcasts is writing and the
                      \* connections it has yet to write it to
    rStalled,         \* relay: the observers whose socket accepts no write
    hsPc,             \* per slot: where a HandleSpeech call of it stands
    hsSpeaker,        \* per slot: speech.Speaker of that call
    updNext,          \* NextSpeaker of the last debate_update sent
    strayTimers,      \* speech timers running that no handle refers to
    scoreIn,          \* the entries of each side given to the fallback scorer
    scoreOut,         \* its result
    chanLen,          \* queue: the number of events buffered in dm.broadcast
    loginPc,          \* queue: where a BotLogin call stands
    relayPc           \* queue: where handleBroadcasts stands

vars == << judgeOn, inRegistry, status, dbStatus, totalRounds, currentRound,
           BotA, BotB, SupportingBot, OpposingBot, DebateLog, LastSpeaker,
           WaitingTimer, TimeoutTimer, InactivityTimer, MaxDurationTimer,
           cbPending, waitingCb, startMsgs, startPending, reader, broadcast,
           dbResult, endsSent, endsQueued, lastEnd, lastReply,
           missedPings, hbPc, hbReg, probeOpen, missedRun, pool, poolReply,
           rSess, rQueue, rConns, rObs, rRecv, rRelay, rStalled,
           hsPc, hsSpeaker, updNext, strayTimers, scoreIn, scoreOut,
           chanLen, loginPc, relayPc >>

coreVars == << judgeOn, inRegistry, status, dbStatus, totalRounds,
               currentRound, BotA, BotB, SupportingBot, OpposingBot, DebateLog,
               LastSpeaker, WaitingTimer, TimeoutTimer, InactivityTimer,
               MaxDurationTimer, cbPending, waitingCb, startMsgs,
               startPending, reader, broadcast, dbResult, endsSent,
               endsQueued, lastEnd, lastReply >>
timerVars == << WaitingTimer, TimeoutTimer, InactivityTimer, MaxDurationTimer >>
connVars == << reader >>
slotVars == << BotA, BotB >>
sideVars == << SupportingBot, OpposingBot, startMsgs >>
cbVars == << cbPending, waitingCb >>
hbVars == << missedPings, hbPc, hbReg, probeOpen, missedRun >>
poolVars == << pool, poolReply >>
relayVars == << rSess, rQueue, rConns, rObs, rRecv, rRelay, rStalled >>
hsVars == << hsPc, hsSpeaker, updNext, strayTimers >>
scoreVars == << scoreIn, scoreOut >>
queueVars == << chanLen, loginPc, relayPc >>
laterVars == << relayVars, hsVars, scoreVars, queueVars >>
auxVars == << hbVars, poolVars, laterVars >>
logVars == << DebateLog, LastSpeaker >>
endVars == << endsSent, endsQueued, lastEnd >>

NoResult == [winner |-> "", supportingScore |-> 0 - 1, opposingScore |-> 0 - 1]
NoEnd == [status |-> "", cause |-> <<>>, reason |-> <<>>, winner |-> ""]
NoMessage == [kind |-> "none"]

\* ---------------------------------------------------------------- helpers
\* fmt.Sprintf("%s-%s", BotName, BotUUID[:8])
BotIdentifier(login) == << login.name, login.prefix >>

\* generateDebateKey: 128 random bits, one key per slot
generateDebateKey(slot) == IF slot = "A" THEN "key-A" ELSE "key-B"

BotAt(slot) == IF slot = "A" THEN BotA ELSE IF slot = "B" THEN BotB ELSE NoBot

SupportingIdent == BotAt(SupportingBot).ident
OpposingIdent == BotAt(OpposingBot).ident

\* Bot.Side of the bot in a slot
SideOf(slot) ==
    IF SupportingBot = slot THEN "supporting"
    ELSE IF OpposingBot = slot THEN "opposing" ELSE ""

JoinedCount == (IF BotA # NoBot THEN 1 ELSE 0) + (IF BotB # NoBot THEN 1 ELSE 0)

\* a timer handle is "nil", "armed", or "idle" once stopped or run out;
\* time.Timer.Stop cancels a timer that has not run out, nothing otherwise
StopTimer(t) == IF t = "armed" THEN "idle" ELSE t

CountSide(log, side) == Cardinality({i \in 1..Len(log) : log[i].side = side})

\* the state after NewDebateManager, the input of the scorer apart
InitManager ==
    /\ judgeOn \in BOOLEAN
    /\ inRegistry = FALSE
    /\ status = "none"
    /\ dbStatus = "none"
    /\ totalRounds = 0
    /\ currentRound = 0
    /\ BotA = NoBot
    /\ BotB = NoBot
    /\ SupportingBot = "none"
    /\ OpposingBot = "none"
    /\ DebateLog = <<>>
    /\ LastSpeaker = <<>>
    /\ WaitingTimer = "nil"
    /\ TimeoutTimer = "nil"
    /\ InactivityTimer = "nil"
    /\ MaxDurationTimer = "nil"
    /\ cbPending = [k \in Kinds |-> 0]
    /\ waitingCb = "none"
    /\ startMsgs = [s \in Slots |-> <<>>]
    /\ startPending = FALSE
    /\ reader = [s \in Slots |-> "none"]
    /\ broadcast = <<>>
    /\ dbResult = NoResult
    /\ endsSent = [s \in Slots |-> 0]
    /\ endsQueued = 0
    /\ lastEnd = NoEnd
    /\ lastReply = NoMessage
    /\ missedPings = [s \in Slots |-> 0]
    /\ hbPc = [s \in Slots |-> "off"]
    /\ hbReg = [s \in Slots |-> 0]
    /\ probeOpen = [s \in Slots |-> FALSE]
    /\ missedRun = [s \in Slots |-> 0]
    /\ pool = << >>
    /\ poolReply = NoMessage
    /\ rSess = [d \in RelaySessions |-> NoSession]
    /\ rQueue = << >>
    /\ rConns = [d \in RelaySessions |-> {}]
    /\ rObs = [o \in Observers |-> [pc |-> "idle", debateID |-> "", subs |-> 0]]
    /\ rRecv = [o \in Observers |-> NoReceived]
    /\ rRelay = [busy |-> FALSE, msg |-> NoBroadcast, todo |-> {}]
    /\ rStalled = {}
    /\ hsPc = [s \in Slots |-> "idle"]
    /\ hsSpeaker = [s \in Slots |-> << >>]
    /\ updNext = << >>
    /\ strayTimers = 0
    /\ scoreOut = NoResult
    /\ chanLen = 0
    /\ loginPc = "idle"
    /\ relayPc = "receive"

Init ==
    /\ InitManager
    /\ scoreIn = << 0, 0 >>

\* ------------------------------------------------------------ CreateDebate
CreateDebate ==
    /\ dbStatus = "none"
    /\ \E rounds \in 1..MaxRounds :
        /\ totalRounds' = rounds
        /\ currentRound' = 1
        /\ status' = "waiting"
        /\ dbStatus' = "waiting"
        /\ inRegistry' = TRUE
        /\ WaitingTimer' = "armed"
    /\ UNCHANGED << judgeOn, auxVars, lastReply, slotVars, sideVars, logVars, TimeoutTimer,
                    InactivityTimer, MaxDurationTimer, cbVars, startPending, connVars, broadcast, dbResult,
                    endVars >>

\* ---------------------------------------------------------------- BotLogin
\* the reply BotLogin gives, "confirmed" or the rejection reason
LoginOutcome(login, withId) ==
    IF ~withId /\ ~(dbStatus = "waiting" /\ JoinedCount < 2)
        THEN "no_available_debate"
    ELSE IF ~inRegistry /\ dbStatus = "none" THEN "debate_not_found"
    ELSE IF ~inRegistry /\ dbStatus # "waiting" THEN "debate_not_ready"
    ELSE IF BotA # NoBot /\ BotB # NoBot THEN "debate_full"
    ELSE IF << login.prefix, login.rest >> = BotA.uuid THEN "internal_error"
    ELSE "confirmed"

NewBot(login, slot) ==
    [name |-> login.name, uuid |-> << login.prefix, login.rest >>,
     ident |-> BotIdentifier(login), key |-> generateDebateKey(slot)]

\* variant: the second slot is tried first
LastEmptySlot == IF BotB = NoBot THEN "B" ELSE "A"

\* the slot a confirmed login fills
FirstEmptySlot == IF BotA = NoBot THEN "A" ELSE "B"

BotLoginOf(login, withId) ==
        LET outcome == LoginOutcome(login, withId)
            slot == FirstEmptySlot
        IN  /\ Len(broadcast) < BroadcastCap
            /\ IF outcome = "confirmed"
               THEN /\ BotA' = IF slot = "A" THEN NewBot(login, "A") ELSE BotA
                    /\ BotB' = IF slot = "B" THEN NewBot(login, "B") ELSE BotB
                    /\ broadcast' = Append(broadcast,
                                           "debate_waiting")
                    /\ startPending' = (startPending \/ slot = "B")
                    /\ reader' = [reader EXCEPT ![slot] = "reading"]
               ELSE UNCHANGED << slotVars, broadcast, startPending, connVars >>
            /\ UNCHANGED << judgeOn, auxVars, inRegistry, status, dbStatus, totalRounds,
                            currentRound, sideVars, logVars, timerVars,
                            cbVars, dbResult, endVars >>

BotLogin ==
    \E login \in Logins, withId \in BOOLEAN :
        /\ BotLoginOf(login, withId)
        /\ UNCHANGED lastReply

\* handleBotWebSocket: login_confirmed or login_rejected goes to the sender;
\* only debate_not_ready carries a retry hint
LoginReply(login, withId) ==
    LET outcome == LoginOutcome(login, withId)
    IN  [kind |-> "login", code |-> outcome,
         retry |-> (outcome = "debate_not_ready")]

BotLoginReplied ==
    \E login \in Logins, withId \in BOOLEAN :
        /\ BotLoginOf(login, withId)
        /\ lastReply' = LoginReply(login, withId)

\* ------------------------------------------------------------- startDebate
\* startTimeout, startInactivityTimer, startMaxDurationTimer: a new countdown
\* in the handle if the session is in the registry
startTimer(t) == IF inRegistry THEN "armed" ELSE t

\* variant: the opposing side always goes to the first slot
AssignSidesFirstOpposing(randomBool) ==
    [supporting |-> IF randomBool THEN "A" ELSE "B", opposing |-> "A"]

\* startDebate draws the sides: the first participant supports when the draw
\* is true, opposes otherwise
AssignSides(randomBool) ==
    [supporting |-> IF randomBool THEN "A" ELSE "B",
     opposing |-> IF randomBool THEN "B" ELSE "A"]

\* the debate_start startDebate writes to the connection of slot `to`:
\* startMsgA goes to the supporting participant, startMsgB to the opposing
DebateStart(supporting, opposing, to) ==
    [supporting_side |-> BotAt(supporting).ident,
     opposing_side |-> BotAt(opposing).ident,
     your_side |-> IF to = supporting THEN "supporting" ELSE "opposing",
     your_identifier |-> BotAt(to).ident,
     next_speaker |-> BotAt(supporting).ident]

StartDebate ==
    /\ startPending
    /\ startPending' = FALSE
    /\ IF ~inRegistry
       THEN UNCHANGED << status, dbStatus, sideVars, LastSpeaker, timerVars,
                         broadcast >>
       ELSE /\ Len(broadcast) < BroadcastCap
            /\ WaitingTimer' = "nil"
            /\ \E randomBool \in BOOLEAN :
                 /\ SupportingBot' = AssignSides(randomBool).supporting
                 /\ OpposingBot' = AssignSides(randomBool).opposing
            /\ startMsgs' = [s \in Slots |->
                                Append(startMsgs[s],
                                       DebateStart(SupportingBot', OpposingBot', s))]
            /\ status' = "active"
            /\ dbStatus' = "active"
            /\ broadcast' = Append(broadcast, "debate_start")
            /\ LastSpeaker' = <<>>
            /\ TimeoutTimer' = startTimer(TimeoutTimer)
            /\ InactivityTimer' = startTimer(InactivityTimer)
            /\ MaxDurationTimer' = startTimer(MaxDurationTimer)
    /\ UNCHANGED << judgeOn, auxVars, lastReply, inRegistry, totalRounds, currentRound, slotVars,
                    DebateLog, cbVars, connVars, dbResult, endVars >>

\* ---------------------------------------------------- generateDebateResult
\* variant: the verdict is taken as the judge gave it
parseJudgeResponseAsGiven(reply) ==
    [winner |-> reply.winner, supportingScore |-> reply.ss,
     opposingScore |-> reply.os, reason |-> <<>>]

\* parseJudgeResponse: scores outside [0,100] become 50, an unknown winner
\* becomes draw; the result carries no Reason
parseJudgeResponse(reply) ==
    [winner |-> IF reply.winner \in {"supporting", "opposing", "draw"}
                THEN reply.winner ELSE "draw",
     supportingScore |-> IF reply.ss < 0 \/ reply.ss > 100
                         THEN NeutralScore ELSE reply.ss,
     opposingScore |-> IF reply.os < 0 \/ reply.os > 100
                       THEN NeutralScore ELSE reply.os,
     reason |-> <<>>]

\* JudgeDebate on a reply that arrived: a reply without JSON gives a draw
JudgeDebate(reply) ==
    IF reply.kind = "json" THEN parseJudgeResponse(reply)
    ELSE [winner |-> "draw", supportingScore |-> NeutralScore,
          opposingScore |-> NeutralScore, reason |-> <<>>]

\* variant: the raw scores are normalized without the cap
CapScoreNone(n) == n

\* a raw score is cut at the cap before it is normalized
CapScore(n) == IF n > FallbackCap THEN FallbackCap ELSE n

FallbackResult(supportingCount, opposingCount, reason) ==
    LET s0 == CapScore(FallbackBase + supportingCount * FallbackPerSpeech)
        o0 == CapScore(FallbackBase + opposingCount * FallbackPerSpeech)
        s1 == (s0 * 100) \div (s0 + o0)
        o1 == 100 - s1
    IN  [winner |-> IF supportingCount > 0 /\ opposingCount > 0
                    THEN IF s1 > o1 + WinMargin THEN "supporting"
                         ELSE IF o1 > s1 + WinMargin THEN "opposing"
                         ELSE "none"
                    ELSE "none",
         supportingScore |-> s1,
         opposingScore |-> o1,
         reason |-> reason]

\* the counts and the test generateDebateResult makes on the transcript it
\* finds
SupportingCount(log) == CountSide(log, "supporting")
OpposingCount(log) == Len(log) - SupportingCount(log)

shouldUseAI(log) ==
    /\ judgeOn
    /\ SupportingBot # "none"
    /\ OpposingBot # "none"
    /\ SupportingCount(log) > 0
    /\ OpposingCount(log) > 0

\* the replies the judge can give to this call; it is not called, and the
\* reply plays no part, unless shouldUseAI
RepliesNow(log) == IF shouldUseAI(log) THEN JudgeReplies ELSE {NoReply}

generateDebateResult(log, reason, reply) ==
    IF shouldUseAI(log) /\ reply.kind # "error"
    THEN JudgeDebate(reply)
    ELSE FallbackResult(SupportingCount(log), OpposingCount(log), reason)

\* ---------------------------------------------------------------- endDebate
\* variant: the insert replaces an existing row
SaveDebateResultReplacing(row, result) ==
    [winner |-> result.winner, supportingScore |-> result.supportingScore,
     opposingScore |-> result.opposingScore]

\* SaveDebateResult: INSERT into a table keyed by debate_id; a second insert
\* fails and the error is dropped.  The row has no reason column.
SaveDebateResult(row, result) ==
    IF row = NoResult
    THEN [winner |-> result.winner, supportingScore |-> result.supportingScore,
          opposingScore |-> result.opposingScore]
    ELSE row

\* the slots endDebate writes the debate_end to
EndRecipients ==
    (IF SupportingBot # "none" THEN {SupportingBot} ELSE {})
        \cup (IF OpposingBot # "none" THEN {OpposingBot} ELSE {})

\* endDebate(debateID, st, reason) on a session whose transcript is log:
\* what it does to the timers, the status, the stored result and the
\* outgoing messages
endDebateOn(log, st, reason) ==
    IF ~inRegistry
    THEN UNCHANGED << timerVars, status, dbStatus, dbResult, endVars, broadcast >>
    ELSE \E reply \in RepliesNow(log) :
           LET result == generateDebateResult(log, reason, reply)
           IN  /\ endsQueued < MaxEnds
               /\ Len(broadcast) < BroadcastCap
               /\ WaitingTimer' = StopTimer(WaitingTimer)
               /\ TimeoutTimer' = StopTimer(TimeoutTimer)
               /\ InactivityTimer' = StopTimer(InactivityTimer)
               /\ MaxDurationTimer' = StopTimer(MaxDurationTimer)
               /\ dbStatus' = st
               /\ status' = st
               /\ dbResult' = SaveDebateResult(dbResult, result)
               /\ endsSent' = [s \in Slots |->
                                 endsSent[s] + IF s \in EndRecipients THEN 1 ELSE 0]
               /\ endsQueued' = endsQueued + 1
               /\ lastEnd' = [status |-> st, cause |-> reason,
                               reason |-> result.reason,
                               winner |-> result.winner]
               /\ broadcast' = Append(broadcast, "debate_end")

\* endDebate from a caller that leaves the transcript as it is
endDebate(st, reason) == endDebateOn(DebateLog, st, reason)

\* ------------------------------------------------------------- HandleSpeech
getNextSpeaker ==
    IF LastSpeaker = <<>> THEN SupportingIdent
    ELSE IF LastSpeaker = SupportingIdent THEN OpposingIdent
    ELSE SupportingIdent

\* the slot HandleSpeech takes for the claimed speaker
SpeakerBot(speaker) ==
    IF SupportingBot # "none" /\ SupportingIdent = speaker THEN SupportingBot
    ELSE IF OpposingBot # "none" /\ OpposingIdent = speaker THEN OpposingBot
    ELSE "none"

\* the error code of a submission, "accepted" if it has none
SpeechOutcome(speaker, key, clen) ==
    IF ~inRegistry THEN "DEBATE_NOT_FOUND"
    ELSE IF SpeakerBot(speaker) = "none" \/ BotAt(SpeakerBot(speaker)).key # key
        THEN "INVALID_DEBATE_KEY"
    ELSE IF speaker # getNextSpeaker THEN "NOT_YOUR_TURN"
    ELSE IF clen = "short" THEN "CONTENT_TOO_SHORT"
    ELSE IF clen = "long" THEN "CONTENT_TOO_LONG"
    ELSE "accepted"

\* variant: the speech timer is cancelled before the turn is checked
PastKeyCheck(outcome) ==
    outcome \in {"NOT_YOUR_TURN", "CONTENT_TOO_SHORT", "CONTENT_TOO_LONG",
                 "accepted"}

\* whether HandleSpeech got as far as cancelling the speech timer
PastTurnCheck(outcome) ==
    outcome \in {"CONTENT_TOO_SHORT", "CONTENT_TOO_LONG", "accepted"}

\* variant: the round counter advances on every accepted speech
RoundAfterAnySpeech(opposingSpoke) ==
    currentRound + 1

\* the round counter after an accepted speech: it advances when the speaker
\* is not the supporting participant
RoundAfter(opposingSpoke) ==
    IF opposingSpoke THEN currentRound + 1 ELSE currentRound

\* the debate is complete once the advanced counter passes the total
DebateOver(round) ==
    round > totalRounds

\* whether the error message of a code says the sender may try again
Recoverable(code) ==
    code \in {"NOT_YOUR_TURN", "CONTENT_TOO_SHORT", "CONTENT_TOO_LONG"}

\* HandleSpeech on a debate_speech read from the connection of slot s
HandleSpeechOf(s, speaker, k, clen) ==
        LET outcome == SpeechOutcome(speaker, k, clen)
            opposingSpoke == speaker # SupportingIdent
            round == RoundAfter(opposingSpoke)
            entry == [round |-> currentRound, speaker |-> speaker,
                      side |-> SideOf(SpeakerBot(speaker))]
        IN  /\ reader[s] = "reading"
            /\ Len(DebateLog) < MaxLog
            /\ IF outcome = "accepted"
               THEN /\ DebateLog' = Append(DebateLog, entry)
                    /\ LastSpeaker' = speaker
                    /\ currentRound' = round
                    /\ IF opposingSpoke /\ DebateOver(round)
                       THEN /\ endDebateOn(Append(DebateLog, entry),
                                        "completed", << "completed" >>)
                       ELSE /\ Len(broadcast) < BroadcastCap
                            /\ broadcast' = Append(broadcast, "debate_update")
                            /\ TimeoutTimer' = startTimer(TimeoutTimer)
                            /\ InactivityTimer' = startTimer(InactivityTimer)
                            /\ UNCHANGED << WaitingTimer, MaxDurationTimer,
                                            status, dbStatus, dbResult,
                                            endVars >>
               ELSE /\ IF PastTurnCheck(outcome)
                       THEN /\ TimeoutTimer' = StopTimer(TimeoutTimer)
                            /\ InactivityTimer' = startTimer(InactivityTimer)
                       ELSE UNCHANGED << TimeoutTimer, InactivityTimer >>
                    /\ UNCHANGED << logVars, currentRound, WaitingTimer,
                                    MaxDurationTimer, status, dbStatus,
                                    dbResult, endVars, broadcast >>
            /\ UNCHANGED << judgeOn, auxVars, inRegistry, totalRounds, slotVars,
                            sideVars, cbVars, startPending, connVars >>

\* the keys a participant can present: its own, or one it does not hold
KeysOf(s) == {BotAt(s).key, "key-bad"}

HandleSpeech ==
    \E s \in Slots, speaker \in {BotA.ident, BotB.ident},
       clen \in ContentLens :
        \E k \in KeysOf(s) :
            /\ HandleSpeechOf(s, speaker, k, clen)
            /\ UNCHANGED lastReply

\* handleBotSpeech: the error HandleSpeech returns is written to the sender
SpeechReply(s, speaker, k, clen) ==
    LET outcome == SpeechOutcome(speaker, k, clen)
    IN  [kind |-> "speech", code |-> outcome,
         recoverable |-> Recoverable(outcome)]

HandleSpeechReplied ==
    \E s \in Slots, speaker \in {BotA.ident, BotB.ident},
       clen \in ContentLens :
        \E k \in KeysOf(s) :
            /\ HandleSpeechOf(s, speaker, k, clen)
            /\ lastReply' = SpeechReply(s, speaker, k, clen)

\* ------------------------------------------------------------------ timers
PendingCallbacks ==
    cbPending["waiting"] + cbPending["speech"] + cbPending["inactivity"]
        + cbPending["maxduration"] + (IF waitingCb = "none" THEN 0 ELSE 1)

\* a countdown runs out: the runtime starts the callback in its own
\* goroutine; from here on Stop() no longer prevents it
TimerExpire ==
    \E k \in Kinds :
        /\ PendingCallbacks < MaxPending
        /\ cbPending' = [cbPending EXCEPT ![k] = @ + 1]
        /\ \/ /\ k = "waiting" /\ WaitingTimer = "armed"
              /\ WaitingTimer' = "idle"
              /\ UNCHANGED << TimeoutTimer, InactivityTimer, MaxDurationTimer >>
           \/ /\ k = "speech" /\ TimeoutTimer = "armed"
              /\ TimeoutTimer' = "idle"
              /\ UNCHANGED << WaitingTimer, InactivityTimer, MaxDurationTimer >>
           \/ /\ k = "inactivity" /\ InactivityTimer = "armed"
              /\ InactivityTimer' = "idle"
              /\ UNCHANGED << WaitingTimer, TimeoutTimer, MaxDurationTimer >>
           \/ /\ k = "maxduration" /\ MaxDurationTimer = "armed"
              /\ MaxDurationTimer' = "idle"
              /\ UNCHANGED << WaitingTimer, TimeoutTimer, InactivityTimer >>
        /\ UNCHANGED << judgeOn, auxVars, lastReply, inRegistry, status, dbStatus, totalRounds,
                        currentRound, slotVars, sideVars, logVars, startPending,
                        connVars, broadcast, dbResult, endVars, waitingCb >>

\* the callback startWaitingTimer installs, in the three stretches other
\* goroutines can run between: it looks the session up and reads its status
\* (registry read lock only), writes the status "timeout" to storage and to
\* the session (no lock), and deletes the session from the registry
\* (registry write lock)
WaitingTimeout ==
    /\ cbPending["waiting"] > 0
    /\ cbPending' = [cbPending EXCEPT !["waiting"] = @ - 1]
    /\ waitingCb' = IF inRegistry /\ status = "waiting" THEN "mark" ELSE waitingCb
    /\ UNCHANGED << judgeOn, auxVars, lastReply, inRegistry, status, dbStatus, totalRounds,
                    currentRound, slotVars, sideVars, logVars, timerVars,
                    startPending, connVars, broadcast, dbResult, endVars >>

WaitingMark ==
    /\ waitingCb = "mark"
    /\ waitingCb' = "delete"
    /\ dbStatus' = "timeout"
    /\ status' = "timeout"
    /\ UNCHANGED << judgeOn, auxVars, lastReply, inRegistry, totalRounds, currentRound, slotVars,
                    sideVars, logVars, timerVars, cbPending, startPending,
                    connVars, broadcast, dbResult, endVars >>

WaitingDelete ==
    /\ waitingCb = "delete"
    /\ waitingCb' = "none"
    /\ inRegistry' = FALSE
    /\ UNCHANGED << judgeOn, auxVars, lastReply, status, dbStatus, totalRounds, currentRound,
                    slotVars, sideVars, logVars, timerVars, cbPending,
                    startPending, connVars, broadcast, dbResult, endVars >>

\* the end reason of each of the three callbacks that call endDebate
TimeoutReason(k) ==
    IF k = "speech" THEN << "speech_timeout" >>
    ELSE IF k = "inactivity" THEN << "inactivity_timeout" >>
    ELSE << "max_duration_timeout" >>

TimerCallback(k) ==
    /\ cbPending[k] > 0
    /\ cbPending' = [cbPending EXCEPT ![k] = @ - 1]
    /\ endDebate("timeout", TimeoutReason(k))
    /\ UNCHANGED << judgeOn, auxVars, lastReply, inRegistry, totalRounds, currentRound, slotVars,
                    sideVars, logVars, startPending, connVars, waitingCb >>

\* the callbacks startTimeout, startInactivityTimer and startMaxDurationTimer
\* install
SpeechTimeout == TimerCallback("speech")
InactivityTimeout == TimerCallback("inactivity")
MaxDurationTimeout == TimerCallback("maxduration")

\* ------------------------------------------------------ HandleBotDisconnect
\* variant: the debate is ended whatever its status
DisconnectEndsDebate(slot, reason) ==
    IF inRegistry
    THEN endDebate("timeout", << reason, BotAt(slot).ident >>)
    ELSE UNCHANGED << timerVars, status, dbStatus, dbResult, endVars, broadcast >>

HandleBotDisconnect(slot, reason) ==
    IF inRegistry /\ status = "active"
    THEN endDebate("timeout", << reason, BotAt(slot).ident >>)
    ELSE UNCHANGED << timerVars, status, dbStatus, dbResult, endVars, broadcast >>

\* the read loop of a participant's connection fails (main.go, the error
\* branch of ReadJSON); the loop ends and with it the heartbeat goroutine
ConnectionLost ==
    \E s \in Slots :
        /\ reader[s] = "reading"
        /\ HandleBotDisconnect(s, "connection_lost")
        /\ reader' = [reader EXCEPT ![s] = "done"]
        /\ UNCHANGED << judgeOn, auxVars, lastReply, inRegistry, totalRounds, currentRound,
                        slotVars, sideVars, logVars, cbVars, startPending >>

\* the heartbeat goroutine finds MissedPingLimit probes unanswered, raises
\* the disconnect and closes the connection.  The read loop then fails on
\* the closed connection and raises connection_lost as well; that second
\* event is taken in the same step.
HeartbeatTimeoutOf(s) ==
        /\ reader[s] = "reading"
        /\ HandleBotDisconnect(s, "heartbeat_timeout")
        /\ reader' = [reader EXCEPT ![s] = "done"]
        /\ UNCHANGED << judgeOn, poolVars, laterVars, lastReply, inRegistry, totalRounds,
                        currentRound, slotVars, sideVars, logVars, cbVars,
                        startPending >>

HeartbeatTimeout ==
    \E s \in Slots :
        /\ HeartbeatTimeoutOf(s)
        /\ UNCHANGED hbVars

Next ==
    \/ CreateDebate
    \/ BotLogin
    \/ StartDebate
    \/ HandleSpeech
    \/ TimerExpire
    \/ WaitingTimeout
    \/ WaitingMark
    \/ WaitingDelete
    \/ SpeechTimeout
    \/ InactivityTimeout
    \/ MaxDurationTimeout
    \/ ConnectionLost
    \/ HeartbeatTimeout

Spec == Init /\ [][Next]_vars

\* the same program with every submission and login recorded together
\* with the reply its sender gets
NextReplies ==
    \/ CreateDebate
    \/ BotLoginReplied
    \/ StartDebate
    \/ HandleSpeechReplied
    \/ TimerExpire
    \/ WaitingTimeout
    \/ WaitingMark
    \/ WaitingDelete
    \/ SpeechTimeout
    \/ InactivityTimeout
    \/ MaxDurationTimeout
    \/ ConnectionLost
    \/ HeartbeatTimeout

\* no reply depends on how the result is judged: the judge stays off here
InitReplies == Init /\ ~judgeOn

SpecReplies == InitReplies /\ [][NextReplies]_vars

\* ------------------------------------------------------ heartbeat monitor
\* the heartbeat goroutine of a participant and the pong branch of its read
\* loop, which share missedPings without a lock.  hbPc is "off" before the
\* goroutine starts, "wait" at the select, "sent" after the ping is written,
\* "loaded" inside missedPings++, "timedout" after it raised the disconnect
\* and "quit" after it returned for any other cause.

\* go func(): the goroutine starts after login_confirmed
HeartbeatStart ==
    \E s \in Slots :
        /\ reader[s] = "reading"
        /\ hbPc[s] = "off"
        /\ hbPc' = [hbPc EXCEPT ![s] = "wait"]
        /\ UNCHANGED << coreVars, poolVars, laterVars, missedPings, hbReg, probeOpen,
                        missedRun >>

\* the three-strikes test of the tick
MissedTooMany(n) == n >= MissedPingLimit

\* case <-ticker.C: the test of the counter, then the disconnect or the ping
PingTick ==
    \E s \in Slots :
        /\ reader[s] = "reading"
        /\ hbPc[s] = "wait"
        /\ missedRun' = [missedRun EXCEPT
                            ![s] = IF probeOpen[s] THEN @ + 1 ELSE 0]
        /\ IF MissedTooMany(missedPings[s])
           THEN /\ HeartbeatTimeoutOf(s)
                /\ hbPc' = [hbPc EXCEPT ![s] = "timedout"]
                /\ UNCHANGED << missedPings, hbReg, probeOpen >>
           ELSE /\ hbPc' = [hbPc EXCEPT ![s] = "sent"]
                /\ probeOpen' = [probeOpen EXCEPT ![s] = TRUE]
                /\ UNCHANGED << coreVars, poolVars, laterVars, missedPings, hbReg >>

\* missedPings++, the read of the counter
PingLoad ==
    \E s \in Slots :
        /\ hbPc[s] = "sent"
        /\ hbReg' = [hbReg EXCEPT ![s] = missedPings[s]]
        /\ hbPc' = [hbPc EXCEPT ![s] = "loaded"]
        /\ UNCHANGED << coreVars, poolVars, laterVars, missedPings, probeOpen,
                        missedRun >>

\* missedPings++, the write of the counter
PingStore ==
    \E s \in Slots :
        /\ hbPc[s] = "loaded"
        /\ missedPings' = [missedPings EXCEPT ![s] = hbReg[s] + 1]
        /\ hbPc' = [hbPc EXCEPT ![s] = "wait"]
        /\ UNCHANGED << coreVars, poolVars, laterVars, hbReg, probeOpen, missedRun >>

\* case "pong": the read loop gets the answer to the last ping
Pong ==
    \E s \in Slots :
        /\ reader[s] = "reading"
        /\ probeOpen[s]
        /\ missedPings' = [missedPings EXCEPT ![s] = 0]
        /\ probeOpen' = [probeOpen EXCEPT ![s] = FALSE]
        /\ UNCHANGED << coreVars, poolVars, laterVars, hbPc, hbReg, missedRun >>

\* case <-quitHeartbeat, or a ping that cannot be written: the read loop
\* has ended
HeartbeatQuit ==
    \E s \in Slots :
        /\ reader[s] = "done"
        /\ hbPc[s] = "wait"
        /\ hbPc' = [hbPc EXCEPT ![s] = "quit"]
        /\ UNCHANGED << coreVars, poolVars, laterVars, missedPings, hbReg, probeOpen,
                        missedRun >>

NextHeartbeat ==
    \/ CreateDebate
    \/ BotLogin
    \/ StartDebate
    \/ ConnectionLost
    \/ HeartbeatStart
    \/ PingTick
    \/ PingLoad
    \/ PingStore
    \/ Pong
    \/ HeartbeatQuit

\* the monitor does not depend on how a result is judged
InitHeartbeat == Init /\ ~judgeOn

SpecHeartbeat == InitHeartbeat /\ [][NextHeartbeat]_vars

\* ------------------------------------------------- login without session id
\* several sessions, each with its status and the bot_uuid rows of the bots
\* table, kept in the order of created_at

\* handleCreateDebate: a new waiting session with no bots
PoolCreateDebate ==
    /\ Len(pool) < MaxSessions
    /\ pool' = Append(pool, [status |-> "waiting", bots |-> {}])
    /\ UNCHANGED << coreVars, hbVars, laterVars, poolReply >>

\* the rows the query of GetAvailableDebate keeps
Available(p) ==
    {i \in 1..Len(p) : p[i].status = "waiting" /\ Cardinality(p[i].bots) < 2}

\* variant: ORDER BY d.created_at DESC
GetLatestAvailableDebate(p) ==
    IF Available(p) = {} THEN 0
    ELSE CHOOSE i \in Available(p) : \A j \in Available(p) : j <= i

\* GetAvailableDebate: the first row by created_at, 0 for sql.ErrNoRows
GetAvailableDebate(p) ==
    IF Available(p) = {} THEN 0
    ELSE CHOOSE i \in Available(p) : \A j \in Available(p) : i <= j

\* the reply to a login without debate_id: after the assignment BotLogin goes
\* on as for a named session, where AddBot fails on a bot_uuid the session
\* already has
PoolLoginReply(uuid) ==
    LET i == GetAvailableDebate(pool)
    IN  IF i = 0 THEN [code |-> "no_available_debate", debate |-> 0]
        ELSE IF uuid \in pool[i].bots
            THEN [code |-> "internal_error", debate |-> i]
        ELSE [code |-> "confirmed", debate |-> i]

PoolBotLoginOf(uuid) ==
    LET reply == PoolLoginReply(uuid)
    IN  /\ poolReply' = reply
        /\ pool' = IF reply.code = "confirmed"
                   THEN [pool EXCEPT ![reply.debate].bots = @ \cup {uuid}]
                   ELSE pool
        /\ UNCHANGED << coreVars, hbVars, laterVars >>

PoolBotLogin == \E uuid \in PoolUuids : PoolBotLoginOf(uuid)

\* startDebate of a session with both bots
PoolStartDebate ==
    \E i \in 1..Len(pool) :
        /\ pool[i].status = "waiting"
        /\ Cardinality(pool[i].bots) = 2
        /\ pool' = [pool EXCEPT ![i].status = "active"]
        /\ UNCHANGED << coreVars, hbVars, laterVars, poolReply >>

\* the join-wait callback of a session that is still waiting
PoolWaitingTimeout ==
    \E i \in 1..Len(pool) :
        /\ pool[i].status = "waiting"
        /\ pool' = [pool EXCEPT ![i].status = "timeout"]
        /\ UNCHANGED << coreVars, hbVars, laterVars, poolReply >>

\* endDebate of a started session
PoolEndDebate ==
    \E i \in 1..Len(pool), st \in {"completed", "timeout"} :
        /\ pool[i].status = "active"
        /\ pool' = [pool EXCEPT ![i].status = st]
        /\ UNCHANGED << coreVars, hbVars, laterVars, poolReply >>

NextPool ==
    \/ PoolCreateDebate
    \/ PoolBotLogin
    \/ PoolStartDebate
    \/ PoolWaitingTimeout
    \/ PoolEndDebate

SpecPool == Init /\ [][NextPool]_vars

\* ------------------------------------------------------- relay to observers
\* handleBroadcasts, the producers that queue events for it, and the
\* observers' handlers.  A session is kept as its status, whether it is in
\* the registry, whether a result is stored, the bots joined and the number
\* of events it has produced; an event carries that number, and a
\* current-state message carries the number of events the stored state
\* reflects.

relayOther == << coreVars, hbVars, poolVars, hsVars, scoreVars, queueVars >>

EventsProduced == rSess["d1"].version + rSess["d2"].version

SubscribesSent == rObs["o1"].subs + rObs["o2"].subs

\* dm.mutex is held by an AddFrontendConnection or a
\* RemoveFrontendConnection that waits for the lock of its session
RegistryLocked == \E o \in Observers : rObs[o].pc \in {"adding", "removing"}

\* the peer of the connection is gone: a write to it fails
Gone(o) == rObs[o].pc \in {"gone", "removing", "closed"}

\* the lock of session d is read-held by handleBroadcasts
SessionReadLocked(d) == rRelay.busy /\ rRelay.msg.debate = d

\* dm.broadcast <- BroadcastMessage{...} by a producer of session d
Produce(d, kind, session) ==
    /\ ~RegistryLocked
    /\ EventsProduced < MaxEvents
    /\ Len(rQueue) < BroadcastCap
    /\ rSess' = [rSess EXCEPT ![d] = [session EXCEPT !.version = @ + 1]]
    /\ rQueue' = Append(rQueue, [debate |-> d, kind |-> kind,
                                 n |-> rSess[d].version + 1])
    /\ UNCHANGED << relayOther, rConns, rObs, rRecv, rRelay, rStalled >>

\* CreateDebate
RelayCreate ==
    \E d \in RelaySessions :
        /\ ~RegistryLocked
        /\ rSess[d].status = "none"
        /\ rSess' = [rSess EXCEPT ![d] = [NoSession EXCEPT
                                           !.status = "waiting",
                                           !.inReg = TRUE]]
        /\ UNCHANGED << relayOther, rQueue, rConns, rObs, rRecv, rRelay,
                        rStalled >>

\* BotLogin confirmed: debate_waiting
RelayLogin ==
    \E d \in RelaySessions :
        /\ rSess[d].inReg
        /\ rSess[d].status = "waiting"
        /\ rSess[d].joined < 2
        /\ Produce(d, "debate_waiting",
                   [rSess[d] EXCEPT !.joined = @ + 1])

\* startDebate: debate_start
RelayStart ==
    \E d \in RelaySessions :
        /\ rSess[d].inReg
        /\ rSess[d].status = "waiting"
        /\ rSess[d].joined = 2
        /\ Produce(d, "debate_start", [rSess[d] EXCEPT !.status = "active"])

\* HandleSpeech accepted: debate_update; the append takes the session lock
RelaySpeech ==
    \E d \in RelaySessions :
        /\ rSess[d].inReg
        /\ rSess[d].status = "active"
        /\ ~SessionReadLocked(d)
        /\ Produce(d, "debate_update", rSess[d])

\* endDebate: debate_end
RelayEnd ==
    \E d \in RelaySessions, st \in {"completed", "timeout"} :
        /\ rSess[d].inReg
        /\ rSess[d].status = "active"
        /\ Produce(d, "debate_end",
                   [rSess[d] EXCEPT !.status = st, !.hasResult = TRUE])

\* the join-wait callback: status timeout, no result and no event;
\* delete(dm.debates, debateID) drops the session with its FrontendConns
RelayWaitingTimeout ==
    \E d \in RelaySessions :
        /\ ~RegistryLocked
        /\ rSess[d].inReg
        /\ rSess[d].status = "waiting"
        /\ rSess' = [rSess EXCEPT ![d].status = "timeout",
                                  ![d].inReg = FALSE]
        /\ rConns' = [rConns EXCEPT ![d] = {}]
        /\ UNCHANGED << relayOther, rQueue, rObs, rRecv, rRelay, rStalled >>

\* case "subscribe_debate": debateID = sub.DebateID, AddFrontendConnection
SubscribeDebate ==
    \E o \in Observers, d \in RelaySessions :
        /\ ~RegistryLocked
        /\ rObs[o].pc = "idle"
        /\ SubscribesSent < MaxSubs
        /\ IF ~rSess[d].inReg
           THEN /\ rObs' = [rObs EXCEPT ![o].debateID = d, ![o].subs = @ + 1]
                /\ UNCHANGED rConns
           ELSE IF SessionReadLocked(d)
           THEN /\ rObs' = [rObs EXCEPT ![o] = [pc |-> "adding",
                                                debateID |-> d,
                                                subs |-> @.subs + 1]]
                /\ UNCHANGED rConns
           ELSE /\ rObs' = [rObs EXCEPT ![o] = [pc |-> "snapshot",
                                                debateID |-> d,
                                                subs |-> @.subs + 1]]
                /\ rConns' = [rConns EXCEPT ![d] = @ \cup {o}]
        /\ UNCHANGED << relayOther, rSess, rQueue, rRecv, rRelay, rStalled >>

\* AddFrontendConnection gets the lock of the session
AddFrontendConnection ==
    \E o \in Observers :
        /\ rObs[o].pc = "adding"
        /\ ~SessionReadLocked(rObs[o].debateID)
        /\ rObs' = [rObs EXCEPT ![o].pc = "snapshot"]
        /\ rConns' = [rConns EXCEPT ![rObs[o].debateID] = @ \cup {o}]
        /\ UNCHANGED << relayOther, rSess, rQueue, rRecv, rRelay, rStalled >>

\* the message sendCurrentDebateState writes for a stored session, none for
\* an ended session without a stored result
CurrentState(d) ==
    LET kind == IF rSess[d].status \in {"completed", "timeout"}
                THEN IF rSess[d].hasResult THEN "debate_end" ELSE ""
                ELSE IF rSess[d].status = "active" THEN "debate_update"
                ELSE IF rSess[d].status = "waiting" THEN "debate_waiting"
                ELSE ""
    IN  IF kind = "" THEN << >>
        ELSE << [debate |-> d, kind |-> kind, n |-> rSess[d].version,
                 snapshot |-> TRUE] >>

sendCurrentDebateState ==
    \E o \in Observers :
        /\ rObs[o].pc = "snapshot"
        /\ o \notin rStalled
        /\ rObs' = [rObs EXCEPT ![o].pc = "idle"]
        /\ rRecv' = [rRecv EXCEPT ![o] =
                        IF CurrentState(rObs[o].debateID) = << >> THEN @
                        ELSE CurrentState(rObs[o].debateID)[1]]
        /\ UNCHANGED << relayOther, rSess, rQueue, rConns, rRelay, rStalled >>

\* the observer's socket stops taking writes
ObserverStalls ==
    /\ "o1" \notin rStalled
    /\ ~Gone("o1")
    /\ rStalled' = rStalled \cup {"o1"}
    /\ UNCHANGED << relayOther, rSess, rQueue, rConns, rObs, rRecv, rRelay >>

\* FrontendConns of the sessions after delete(FrontendConns, conn) in
\* session d, none for a session that is not in the registry
Removed(d, o) ==
    IF d # "" /\ rSess[d].inReg
    THEN [rConns EXCEPT ![d] = @ \ {o}]
    ELSE rConns

\* ReadJSON fails because the peer is gone: the handler leaves its loop; a
\* write of the current state that was under way fails
ObserverDisconnect ==
    \E o \in Observers :
        /\ rObs[o].pc \in {"idle", "snapshot"}
        /\ rObs' = [rObs EXCEPT ![o].pc = "gone"]
        /\ UNCHANGED << relayOther, rSess, rQueue, rConns, rRecv, rRelay,
                        rStalled >>

\* the cleanup of the handler: RemoveFrontendConnection(debateID, conn)
\* takes dm.mutex and then the lock of the session debateID names
RemoveFrontendConnection ==
    \E o \in Observers :
        /\ ~RegistryLocked
        /\ rObs[o].pc = "gone"
        /\ IF rObs[o].debateID # "" /\ rSess[rObs[o].debateID].inReg
                /\ SessionReadLocked(rObs[o].debateID)
           THEN /\ rObs' = [rObs EXCEPT ![o].pc = "removing"]
                /\ UNCHANGED rConns
           ELSE /\ rObs' = [rObs EXCEPT ![o].pc = "closed"]
                /\ rConns' = Removed(rObs[o].debateID, o)
        /\ UNCHANGED << relayOther, rSess, rQueue, rRecv, rRelay, rStalled >>

\* RemoveFrontendConnection gets the lock of the session
FrontendRemoved ==
    \E o \in Observers :
        /\ rObs[o].pc = "removing"
        /\ ~SessionReadLocked(rObs[o].debateID)
        /\ rObs' = [rObs EXCEPT ![o].pc = "closed"]
        /\ rConns' = Removed(rObs[o].debateID, o)
        /\ UNCHANGED << relayOther, rSess, rQueue, rRecv, rRelay, rStalled >>

\* the connections a write to which does not return
Blocking(conns) == {o \in conns : o \in rStalled /\ ~Gone(o)}

\* rRecv, the message each observer received last, after
\* conn.WriteJSON(msg) to the connections in to; the write to a
\* closed connection fails and is logged
Written(msg, to) ==
    [o \in Observers |->
        IF o \in to /\ ~Gone(o)
        THEN [debate |-> msg.debate, kind |-> msg.kind, n |-> msg.n,
              snapshot |-> FALSE]
        ELSE rRecv[o]]

\* handleBroadcasts takes the next message, read-locks its session and
\* writes the message to the connections of the session in the order the
\* map gives them; it stays in the loop, with the lock, at a write that
\* does not return
RelayDeliver ==
    /\ ~rRelay.busy
    /\ ~RegistryLocked
    /\ rQueue # << >>
    /\ rQueue' = Tail(rQueue)
    /\ LET msg == Head(rQueue)
           conns == IF rSess[msg.debate].inReg THEN rConns[msg.debate] ELSE {}
       IN  IF Blocking(conns) = {}
           THEN /\ rRecv' = Written(msg, conns)
                /\ UNCHANGED rRelay
           ELSE \E first \in SUBSET (conns \ Blocking(conns)) :
                    /\ rRecv' = Written(msg, first)
                    /\ rRelay' = [busy |-> TRUE, msg |-> msg,
                                  todo |-> conns \ first]
    /\ UNCHANGED << relayOther, rSess, rConns, rObs, rStalled >>

\* the write it stood at fails because the connection was closed, and the
\* loop goes on
RelayResume ==
    /\ rRelay.busy
    /\ Blocking(rRelay.todo) = {}
    /\ rRecv' = Written(rRelay.msg, rRelay.todo)
    /\ rRelay' = [busy |-> FALSE, msg |-> NoBroadcast, todo |-> {}]
    /\ UNCHANGED << relayOther, rSess, rQueue, rConns, rObs, rStalled >>

NextRelay ==
    \/ RelayCreate
    \/ RelayLogin
    \/ RelayStart
    \/ RelaySpeech
    \/ RelayEnd
    \/ RelayWaitingTimeout
    \/ SubscribeDebate
    \/ AddFrontendConnection
    \/ sendCurrentDebateState
    \/ ObserverStalls
    \/ ObserverDisconnect
    \/ RemoveFrontendConnection
    \/ FrontendRemoved
    \/ RelayDeliver
    \/ RelayResume

\* the judge plays no part in the relay
InitRelay == Init /\ ~judgeOn

SpecRelay == InitRelay /\ [][NextRelay]_vars

\* --------------------------------------------- HandleSpeech, step by step
\* Each participant's read loop calls HandleSpeech in its own goroutine.
\* The call holds the session lock only while it appends, so a call of the
\* other participant can run between its append and the rest of it.

speechOther == << judgeOn, hbVars, poolVars, relayVars, scoreVars, queueVars,
                 lastReply >>

\* HandleSpeech up to dm.db.AddDebateLog: lookup, key and turn check, the
\* speech timer stopped, the inactivity timer reset, the length check, the
\* entry appended and LastSpeaker set
HandleSpeechAppend ==
    \E s \in Slots, speaker \in {BotA.ident, BotB.ident},
       clen \in ContentLens :
        LET outcome == SpeechOutcome(speaker, BotAt(s).key, clen)
            entry == [round |-> currentRound, speaker |-> speaker,
                      side |-> SideOf(SpeakerBot(speaker))]
        IN  /\ reader[s] = "reading"
            /\ hsPc[s] = "idle"
            /\ Len(DebateLog) < MaxLog
            /\ IF PastTurnCheck(outcome)
               THEN /\ TimeoutTimer' = StopTimer(TimeoutTimer)
                    /\ InactivityTimer' = startTimer(InactivityTimer)
               ELSE UNCHANGED << TimeoutTimer, InactivityTimer >>
            /\ IF outcome = "accepted"
               THEN /\ DebateLog' = Append(DebateLog, entry)
                    /\ LastSpeaker' = speaker
                    /\ hsPc' = [hsPc EXCEPT ![s] = "appended"]
                    /\ hsSpeaker' = [hsSpeaker EXCEPT ![s] = speaker]
               ELSE UNCHANGED << logVars, hsPc, hsSpeaker >>
            /\ UNCHANGED << speechOther, inRegistry, status, dbStatus,
                            totalRounds, currentRound, slotVars, sideVars,
                            WaitingTimer, MaxDurationTimer, cbVars,
                            startPending, connVars, broadcast, dbResult,
                            endVars, updNext, strayTimers >>

\* the rest of the call: the round counter, the end of the debate or the
\* debate_update with the next speaker, and startTimeout, which sets
\* TimeoutTimer to a new timer without stopping the one it refers to
HandleSpeechFinish ==
    \E s \in Slots :
        LET speaker == hsSpeaker[s]
            opposingSpoke == speaker # SupportingIdent
            round == RoundAfter(opposingSpoke)
            nextSpeaker == IF opposingSpoke THEN SupportingIdent
                           ELSE OpposingIdent
        IN  /\ hsPc[s] = "appended"
            /\ hsPc' = [hsPc EXCEPT ![s] = "idle"]
            /\ hsSpeaker' = [hsSpeaker EXCEPT ![s] = << >>]
            /\ currentRound' = round
            /\ IF opposingSpoke /\ DebateOver(round)
               THEN /\ endDebate("completed", << "completed" >>)
                    /\ UNCHANGED << updNext, strayTimers >>
               ELSE /\ Len(broadcast) < BroadcastCap
                    /\ broadcast' = Append(broadcast, "debate_update")
                    /\ updNext' = nextSpeaker
                    /\ strayTimers' = strayTimers
                           + (IF TimeoutTimer = "armed" THEN 1 ELSE 0)
                    /\ TimeoutTimer' = startTimer(TimeoutTimer)
                    /\ UNCHANGED << WaitingTimer, InactivityTimer,
                                    MaxDurationTimer, status, dbStatus,
                                    dbResult, endVars >>
            /\ UNCHANGED << speechOther, inRegistry, totalRounds, slotVars,
                            sideVars, cbVars, startPending, connVars,
                            logVars >>

\* a speech timer that no handle refers to runs out: its callback ends the
\* debate
StrayTimerFires ==
    /\ strayTimers > 0
    /\ strayTimers' = strayTimers - 1
    /\ endDebate("timeout", << "speech_timeout" >>)
    /\ UNCHANGED << speechOther, inRegistry, totalRounds, currentRound,
                    slotVars, sideVars, cbVars, startPending, connVars,
                    logVars, hsPc, hsSpeaker, updNext >>

NextSpeech ==
    \/ CreateDebate
    \/ BotLogin
    \/ StartDebate
    \/ HandleSpeechAppend
    \/ HandleSpeechFinish
    \/ StrayTimerFires

SpecSpeech == Init /\ [][NextSpeech]_vars


\* ------------------------------------------------- the fallback scorer
\* generateDebateResult past the judge, on a transcript with the given
\* numbers of supporting and opposing entries

\* the end reasons endDebate is called with
ScoreReasons == { << "completed" >>, << "speech_timeout" >> }

FallbackScore ==
    /\ scoreOut = NoResult
    /\ \E reason \in ScoreReasons :
           scoreOut' = FallbackResult(scoreIn[1], scoreIn[2], reason)
    /\ UNCHANGED << coreVars, hbVars, poolVars, relayVars, hsVars, queueVars,
                    scoreIn >>

NextScore == FallbackScore

InitScore ==
    /\ InitManager
    /\ scoreIn \in (0..MaxEntries) \X (0..MaxEntries)

SpecScore == InitScore /\ [][NextScore]_vars

\* ------------------------------------------------- the queue dm.broadcast
\* The channel of NewDebateManager with its real capacity, a BotLogin call
\* that sends while it holds dm.mutex, the senders that hold no registry
\* lock (startDebate, sendDebateUpdate, endDebate), and handleBroadcasts,
\* which takes dm.mutex.RLock after each receive.
queueOther == << coreVars, hbVars, poolVars, relayVars, hsVars, scoreVars >>

\* BotLogin: dm.mutex.Lock, held to the return
QueueLoginLock ==
    /\ loginPc = "idle"
    /\ loginPc' = "locked"
    /\ UNCHANGED << queueOther, chanLen, relayPc >>

\* BotLogin: the send of debate_waiting blocks while the buffer is full;
\* the deferred unlock follows the send
QueueLoginSend ==
    /\ loginPc = "locked"
    /\ chanLen < BroadcastCap
    /\ chanLen' = chanLen + 1
    /\ loginPc' = "idle"
    /\ UNCHANGED << queueOther, relayPc >>

\* startDebate, sendDebateUpdate, endDebate: a send outside dm.mutex
QueueProduce ==
    /\ chanLen < BroadcastCap
    /\ chanLen' = chanLen + 1
    /\ UNCHANGED << queueOther, loginPc, relayPc >>

\* handleBroadcasts: range dm.broadcast receives the next event
QueueReceive ==
    /\ relayPc = "receive"
    /\ chanLen > 0
    /\ chanLen' = chanLen - 1
    /\ relayPc' = "lookup"
    /\ UNCHANGED << queueOther, loginPc >>

\* handleBroadcasts: dm.mutex.RLock waits for the writer that holds dm.mutex
QueueLookup ==
    /\ relayPc = "lookup"
    /\ loginPc = "idle"
    /\ relayPc' = "write"
    /\ UNCHANGED << queueOther, chanLen, loginPc >>

\* handleBroadcasts: the event is written to the observers of its session
QueueWrite ==
    /\ relayPc = "write"
    /\ relayPc' = "receive"
    /\ UNCHANGED << queueOther, chanLen, loginPc >>

NextQueue ==
    \/ QueueLoginLock
    \/ QueueLoginSend
    \/ QueueProduce
    \/ QueueReceive
    \/ QueueLookup
    \/ QueueWrite

SpecQueue == Init /\ [][NextQueue]_vars

\* the login can send, or the relay can take its next step
LoginCanSend == loginPc = "locked" /\ chanLen < BroadcastCap
RelayCanStep ==
    \/ relayPc = "receive" /\ chanLen > 0
    \/ relayPc = "lookup" /\ loginPc = "idle"
    \/ relayPc = "write"


\* ------------------------------------------------------------- properties
Terminal == {"completed", "timeout"}

\* C1: ending a debate is idempotent: however many triggers invoke endDebate
\* for a session (a timer callback racing a disconnect, a completing speech
\* racing a timer), at most one debate_end reaches each participant and at
\* most one is queued for the observers.
C1_EndDebateOnce ==
    /\ endsQueued <= 1
    /\ \A s \in Slots : endsSent[s] <= 1

\* C2: the session status only moves along waiting -> active,
\* active -> completed, active -> timeout and waiting -> timeout; a terminal
\* status is never left.
C2_StatusTransitions ==
    [][(\/ status' = status
        \/ << status, status' >> \in {<< "none", "waiting" >>,
                                      << "waiting", "active" >>,
                                      << "active", "completed" >>,
                                      << "active", "timeout" >>,
                                      << "waiting", "timeout" >>})]_vars

\* C3: once the status is completed or timeout nothing is added to the
\* transcript, the last speaker and the round counter stay as they are, and
\* no timer handle changes.
C3_FrozenAfterTerminal ==
    [][(status \in Terminal) =>
          (/\ DebateLog' = DebateLog
           /\ LastSpeaker' = LastSpeaker
           /\ currentRound' = currentRound
           /\ timerVars' = timerVars)]_vars

\* C4: the transcript alternates strictly, starting with the supporting
\* side: entries at odd positions are supporting, at even positions opposing.
C4_StrictAlternation ==
    \A i \in 1..Len(DebateLog) :
        DebateLog[i].side = IF i % 2 = 1 THEN "supporting" ELSE "opposing"

\* C5: the round counter of a session stays between 1 and total_rounds + 1.
C5_RoundBounded ==
    status # "none" =>
        /\ currentRound >= 1
        /\ currentRound <= totalRounds + 1

\* C6: the round counter advances, by exactly one, when and only when an
\* opposing speech is accepted; the status becomes completed exactly when
\* such an advance takes the counter past total_rounds, so a completed
\* session holds at least total_rounds entries of each side and an opposing
\* speech accepted in round total_rounds completes the debate.
C6_RoundAndCompletion ==
    [][(status # "none") =>
          (LET opposingAccepted ==
                   /\ Len(DebateLog') = Len(DebateLog) + 1
                   /\ DebateLog'[Len(DebateLog')].side = "opposing"
               advanced == currentRound' = currentRound + 1
           IN  /\ (currentRound' # currentRound) => (advanced /\ opposingAccepted)
               /\ opposingAccepted => advanced
               /\ (status' = "completed" /\ status # "completed")
                      => (advanced /\ currentRound' > totalRounds)
               /\ (advanced /\ currentRound' > totalRounds)
                      => status' = "completed"
               /\ (opposingAccepted /\ currentRound = totalRounds)
                      => status' = "completed"
               /\ (status' = "completed")
                      => /\ CountSide(DebateLog', "supporting") >= totalRounds
                         /\ CountSide(DebateLog', "opposing") >= totalRounds)]_vars

C6_Witness ==
    /\ status = "completed"
    /\ totalRounds >= 2
    /\ currentRound = totalRounds + 1
    /\ Len(DebateLog) = 2 * totalRounds

\* C7: the armed timers match the status: a waiting session has at most the
\* join-wait timer armed; an active session has the speech, inactivity and
\* max-duration timers armed (or run out with the callback on its way); a
\* terminal session has no timer armed.
C7_TimersMatchStatus ==
    /\ (status = "waiting") =>
           /\ TimeoutTimer # "armed"
           /\ InactivityTimer # "armed"
           /\ MaxDurationTimer # "armed"
    /\ (status = "active") =>
           /\ TimeoutTimer = "armed" \/ cbPending["speech"] > 0
           /\ InactivityTimer = "armed" \/ cbPending["inactivity"] > 0
           /\ MaxDurationTimer = "armed" \/ cbPending["maxduration"] > 0
    /\ (status \in Terminal) =>
           /\ WaitingTimer # "armed"
           /\ TimeoutTimer # "armed"
           /\ InactivityTimer # "armed"
           /\ MaxDurationTimer # "armed"

C10_DisconnectReason ==
    (Len(lastEnd.cause) = 2) =>
        /\ lastEnd.status = "timeout"
        /\ lastEnd.reason = lastEnd.cause

\* C11: when the join-wait callback finds the session still waiting, the
\* status becomes timeout and the session leaves the registry, and from the
\* moment the status is timeout no login is confirmed into the session (no
\* slot is filled), also when the login runs while the callback is under way.
C11_NoJoinAfterWaitTimeout ==
    [][(/\ (waitingCb = "mark" /\ waitingCb' = "delete") => (status' = "timeout")
        /\ (waitingCb = "delete" /\ waitingCb' = "none") => ~inRegistry'
        /\ (status = "timeout") => (BotA' = BotA /\ BotB' = BotB))]_vars

\* C12: once two participants have joined and startDebate has run, each has
\* received exactly one debate_start; the two messages name the same
\* supporting and opposing identifiers, give complementary your_side values,
\* and carry the same next_speaker, the supporting participant.
C12_OneDebateStartEach ==
    (BotA # NoBot /\ BotB # NoBot /\ ~startPending) =>
        /\ \A s \in Slots : Len(startMsgs[s]) = 1
        /\ LET a == startMsgs["A"][1]
               b == startMsgs["B"][1]
           IN  /\ a.supporting_side = b.supporting_side
               /\ a.opposing_side = b.opposing_side
               /\ {a.your_side, b.your_side} = {"supporting", "opposing"}
               /\ a.next_speaker = b.next_speaker
               /\ a.next_speaker = SupportingIdent

C14_ValidationOrder ==
    [][(\A s \in Slots, speaker \in {BotA.ident, BotB.ident},
           clen \in ContentLens :
          \A k \in KeysOf(s) :
            (/\ lastReply'.kind = "speech"
             /\ lastReply' = SpeechReply(s, speaker, k, clen)
             /\ HandleSpeechOf(s, speaker, k, clen)) =>
            LET other == IF s = "A" THEN "B" ELSE "A"
                keyOk == \E t \in Slots :
                            BotAt(t).ident = speaker /\ BotAt(t).key = k
                expected ==
                    IF ~inRegistry THEN "DEBATE_NOT_FOUND"
                    ELSE IF ~keyOk THEN "INVALID_DEBATE_KEY"
                    ELSE IF speaker # getNextSpeaker THEN "NOT_YOUR_TURN"
                    ELSE IF clen = "short" THEN "CONTENT_TOO_SHORT"
                    ELSE IF clen = "long" THEN "CONTENT_TOO_LONG"
                    ELSE "accepted"
            IN  /\ lastReply'.code = expected
                /\ (DebateLog' # DebateLog) =>
                       (/\ expected = "accepted"
                        /\ speaker # BotAt(other).ident))]_vars

\* ------------------------------------------------------------------ C15
\* C15: a submission to an existing session that fails validation (wrong
\* key, out of turn, too short, too long) is answered with an error marked
\* recoverable, and it changes nothing in what the sender's next valid
\* submission is answered with.
C15_FailuresRecoverable ==
    [][(\A s \in Slots, speaker \in {BotA.ident, BotB.ident},
           clen \in ContentLens :
          \A k \in KeysOf(s) :
            (/\ lastReply'.kind = "speech"
             /\ lastReply'.code \in {"INVALID_DEBATE_KEY", "NOT_YOUR_TURN",
                                     "CONTENT_TOO_SHORT", "CONTENT_TOO_LONG"}
             /\ inRegistry
             /\ lastReply' = SpeechReply(s, speaker, k, clen)
             /\ HandleSpeechOf(s, speaker, k, clen)) =>
            (/\ lastReply'.recoverable
             /\ SpeechOutcome(BotAt(s).ident, BotAt(s).key, "ok")'
                    = SpeechOutcome(BotAt(s).ident, BotAt(s).key, "ok")))]_vars

\* ------------------------------------------------------------------ C16
\* C16: a login naming a session id is rejected debate_not_found if the
\* session does not exist, else debate_not_ready with a retry hint if its
\* status is not waiting, else debate_full if both slots are filled; a
\* rejected login fills no slot.
C16_LoginRejectionOrder ==
    [][(\A login \in Logins :
            (/\ lastReply'.kind = "login"
             /\ lastReply' = LoginReply(login, TRUE)
             /\ BotLoginOf(login, TRUE)) =>
            LET current == IF inRegistry THEN status ELSE dbStatus
                expected ==
                    IF dbStatus = "none" THEN "debate_not_found"
                    ELSE IF current # "waiting" THEN "debate_not_ready"
                    ELSE IF BotA # NoBot /\ BotB # NoBot THEN "debate_full"
                    ELSE "joins"
            IN  /\ (expected # "joins") => (lastReply'.code = expected)
                /\ lastReply'.retry = (expected = "debate_not_ready")
                /\ (lastReply'.code # "confirmed") =>
                       UNCHANGED slotVars)]_vars

\* ------------------------------------------------------------------ C17
\* C17 as stated: a login without a session id joins the earliest created
\* waiting session with fewer than two bots, and is rejected
\* no_available_debate exactly when there is no such session.
C17_JoinsEarliestWaiting ==
    [][(\A uuid \in PoolUuids :
            PoolBotLoginOf(uuid) =>
            (/\ (poolReply'.code = "no_available_debate") = (Available(pool) = {})
             /\ (Available(pool) # {}) =>
                    (/\ poolReply'.code = "confirmed"
                     /\ poolReply'.debate \in Available(pool)
                     /\ \A j \in Available(pool) : poolReply'.debate <= j
                     /\ uuid \in pool'[poolReply'.debate].bots)))]_vars

\* C17: a login without a session id is directed to the earliest created
\* waiting session with fewer than two bots; it joins that session unless
\* its bot_uuid is already in it, and then it is rejected internal_error and
\* joins nothing. It is rejected no_available_debate exactly when there is
\* no such session.
C17_DirectedToEarliestWaiting ==
    [][(\A uuid \in PoolUuids :
            PoolBotLoginOf(uuid) =>
            (/\ (poolReply'.code = "no_available_debate") = (Available(pool) = {})
             /\ (Available(pool) # {}) =>
                    (/\ poolReply'.debate \in Available(pool)
                     /\ \A j \in Available(pool) : poolReply'.debate <= j
                     /\ IF uuid \in pool[poolReply'.debate].bots
                        THEN /\ poolReply'.code = "internal_error"
                             /\ pool' = pool
                        ELSE /\ poolReply'.code = "confirmed"
                             /\ pool' = [pool EXCEPT
                                    ![poolReply'.debate].bots = @ \cup {uuid}])
             /\ (Available(pool) = {}) => (pool' = pool)))]_vars

\* a login was placed in the second session while a later one was open too
\* and the first one had timed out
C17_Witness ==
    /\ Len(pool) = 3
    /\ poolReply = [code |-> "confirmed", debate |-> 2]
    /\ pool[1].status = "timeout"
    /\ Cardinality(pool[2].bots) = 1
    /\ pool[3].status = "waiting"
    /\ pool[3].bots = {}

\* ------------------------------------------------------------------ C18
\* C18: whatever logins arrive, a step fills at most one slot, slot A before
\* slot B, never a slot that is filled, and a filled slot keeps its
\* participant; so at most two logins are confirmed.
C18_SlotsFilledOnceInOrder ==
    [][(/\ (BotB' # NoBot) => (BotA' # NoBot)
        /\ (BotA # NoBot) => (BotA' = BotA)
        /\ (BotB # NoBot) => (BotB' = BotB)
        /\ (<< BotA, BotB >>' # << BotA, BotB >>) =>
               (/\ JoinedCount' = JoinedCount + 1
                /\ (BotA = NoBot) => (BotB' = BotB)
                /\ reader'[FirstEmptySlot] = "reading"))]_vars

\* both slots are filled and a further login has been turned away
C18_Witness ==
    /\ BotA # NoBot
    /\ BotB # NoBot
    /\ BotA.uuid # BotB.uuid
    /\ lastReply.kind = "login"
    /\ lastReply.code = "debate_full"

\* ------------------------------------------------------------------ C19
\* C19: a disconnect of a participant raised while the session is waiting
\* leaves the status waiting, creates no result, sends no debate_end and
\* leaves the join-wait timer as it was.
C19_DisconnectWhileWaiting ==
    [][((/\ status = "waiting"
         /\ \E s \in Slots : reader[s] = "reading" /\ reader'[s] = "done") =>
        (/\ status' = "waiting"
         /\ dbStatus' = dbStatus
         /\ dbResult' = dbResult
         /\ UNCHANGED << endVars, broadcast, timerVars, cbVars, slotVars,
                         inRegistry >>))]_vars

\* the first participant has gone while the session waits for the second
C19_Witness ==
    /\ status = "waiting"
    /\ BotA # NoBot
    /\ reader["A"] = "done"
    /\ WaitingTimer = "armed"
    /\ dbResult = NoResult

\* ------------------------------------------------------------------ C20
\* C20: the monitor raises heartbeat_timeout only at a tick where the
\* counter is 3 or more, and then the last three probes had no pong by the
\* tick that followed them; a probe raises the counter by one and a pong
\* resets it to zero.
C20_ThreeUnansweredProbes ==
    [][(\A s \in Slots :
            /\ (hbPc[s] # "timedout" /\ hbPc'[s] = "timedout") =>
                   (/\ missedPings[s] >= MissedPingLimit
                    /\ missedRun'[s] >= MissedPingLimit)
            /\ (hbPc[s] = "loaded" /\ hbPc'[s] = "wait") =>
                   (missedPings'[s] = missedPings[s] + 1)
            /\ (probeOpen[s] /\ ~probeOpen'[s]) => (missedPings'[s] = 0))]_vars

\* ------------------------------------------------------------------ C21
\* C21: an observer receives the current-state snapshot of its subscribe
\* before any event of the session, no event that the snapshot already
\* reflects, and the events in the order they occurred: between the
\* attachment and the snapshot only the snapshot is written to it, and an
\* event written after a message of the same session has a higher number
\* than that message.
C21_SnapshotThenEvents ==
    [][(\A o \in Observers :
            (rRecv'[o] # rRecv[o]) =>
                (/\ (rObs[o].pc = "snapshot") => rRecv'[o].snapshot
                 /\ (~rRecv'[o].snapshot
                        /\ rRecv[o].debate = rRecv'[o].debate) =>
                        (rRecv'[o].n > rRecv[o].n)))]_vars

\* ------------------------------------------------------------------ C22
\* C22: an observer whose socket takes no write holds up only its own
\* session: while the relay stands at a write to such an observer, no
\* event of another session waits in the queue behind it, and no producer
\* is kept from the registry.
C22_StalledObserverIsolated ==
    (rRelay.busy /\ Blocking(rRelay.todo) # {}) =>
        (/\ \A i \in 1..Len(rQueue) : rQueue[i].debate = rRelay.msg.debate
         /\ ~RegistryLocked)

\* ------------------------------------------------------------------ C23
\* C23: a subscribe_debate that names a created session is answered with
\* one current-state message chosen by the status of the session: the
\* handler goes on to send it, and what it sends is debate_waiting for a
\* waiting session, debate_update for an active one and debate_end for a
\* completed or timed-out one, also for a session that timed out while
\* waiting.
C23_CurrentStateByStatus ==
    [][(\A o \in Observers :
            /\ (rObs'[o].subs = rObs[o].subs + 1
                    /\ rSess[rObs'[o].debateID].status # "none") =>
                   (rObs'[o].pc \in {"adding", "snapshot"})
            /\ (rObs[o].pc = "snapshot" /\ rObs'[o].pc = "idle") =>
                   (/\ rRecv'[o].snapshot
                    /\ rRecv'[o].debate = rObs[o].debateID
                    /\ rRecv'[o].kind =
                         (IF rSess[rObs[o].debateID].status = "waiting"
                          THEN "debate_waiting"
                          ELSE IF rSess[rObs[o].debateID].status = "active"
                          THEN "debate_update"
                          ELSE "debate_end")))]_vars

\* ------------------------------------------------------------------ C24
\* C24: an observer connection is in the attachment set of at most one
\* session, also after several subscribe_debate messages, and in none
\* after its handler has finished the cleanup of a disconnect.
C24_AttachedToOneSession ==
    \A o \in Observers :
        /\ Cardinality({d \in RelaySessions : o \in rConns[d]}) <= 1
        /\ (rObs[o].pc = "closed") =>
               (\A d \in RelaySessions : o \notin rConns[d])

\* ------------------------------------------------------------------ C25
\* C25: a step in which a timer or a liveness failure takes the session to
\* status timeout writes one debate_end to every joined participant and
\* puts one debate_end on the observers' queue.
C25_TimeoutNotifiesAll ==
    [][(status # "timeout" /\ status' = "timeout") =>
           (/\ \A s \in Slots :
                   (BotAt(s) # NoBot) => (endsSent'[s] = endsSent[s] + 1)
            /\ endsQueued' = endsQueued + 1
            /\ broadcast' = Append(broadcast, "debate_end"))]_vars

\* ------------------------------------------------------------------ C26
\* C26: two submissions handled at the same time leave the session as some
\* sequential order of them would: once no call is under way, no speech
\* timer runs beside the one TimeoutTimer refers to, and the next speaker
\* named by the last debate_update of an active session is the participant
\* whose turn it is.
C26_SpeechSerialized ==
    (\A s \in Slots : hsPc[s] = "idle") =>
        (/\ strayTimers = 0
         /\ (status = "active" /\ updNext # << >>) =>
                (updNext = getNextSpeaker))

\* ------------------------------------------------------------------ C27
\* C27: the fallback scorer gives each side 45 plus 2 per entry, at most
\* 50, and scales the two to a sum of 100; the winner is none if a side
\* has no entry, else the side whose scaled score is more than 5 points
\* higher, else draw.
C27_FallbackRule ==
    (scoreOut # NoResult) =>
        LET sc == CapScore(FallbackBase + scoreIn[1] * FallbackPerSpeech)
            oc == CapScore(FallbackBase + scoreIn[2] * FallbackPerSpeech)
        IN  /\ scoreOut.supportingScore = (sc * 100) \div (sc + oc)
            /\ scoreOut.supportingScore + scoreOut.opposingScore = 100
            /\ scoreOut.winner =
                 (IF scoreIn[1] = 0 \/ scoreIn[2] = 0 THEN "none"
                  ELSE IF scoreOut.supportingScore
                             > scoreOut.opposingScore + WinMargin
                  THEN "supporting"
                  ELSE IF scoreOut.opposingScore
                             > scoreOut.supportingScore + WinMargin
                  THEN "opposing"
                  ELSE "draw")

\* ------------------------------------------------------------------ C28
\* C28: when endDebate calls the judge and the judge fails, by a request
\* error or by a reply that holds no JSON result, the result of the
\* session is the one the fallback scorer computes from the transcript.
C28_JudgeFailureFallsBack ==
    [][(endsQueued' = endsQueued + 1 /\ shouldUseAI(DebateLog')) =>
           (\A reply \in {r \in JudgeReplies : r.kind \in {"error", "nojson"}} :
                LET result == generateDebateResult(DebateLog', lastEnd'.cause,
                                                   reply)
                IN  (lastEnd'.winner = result.winner
                        /\ lastEnd'.reason = result.reason) =>
                        (result = FallbackResult(SupportingCount(DebateLog'),
                                                 OpposingCount(DebateLog'),
                                                 lastEnd'.cause)))]_vars

\* ------------------------------------------------------------------ C29
\* C29: every result endDebate produces, by the judge or by the fallback
\* scorer, has a winner among supporting, opposing, draw and none and both
\* scores in 0..100; of a verdict of the judge, a score outside 0..100 is
\* replaced by 50 and a winner outside supporting, opposing, draw by draw.
C29_ResultWellFormed ==
    [][(endsQueued' = endsQueued + 1) =>
           (/\ dbResult'.winner \in {"supporting", "opposing", "draw", "none"}
            /\ dbResult'.supportingScore \in 0..100
            /\ dbResult'.opposingScore \in 0..100
            /\ \A reply \in RepliesNow(DebateLog') :
                 LET result == generateDebateResult(DebateLog',
                                                    lastEnd'.cause, reply)
                 IN  (lastEnd'.winner = result.winner
                         /\ lastEnd'.reason = result.reason) =>
                         (/\ result.winner
                                \in {"supporting", "opposing", "draw", "none"}
                          /\ result.supportingScore \in 0..100
                          /\ result.opposingScore \in 0..100
                          /\ (shouldUseAI(DebateLog') /\ reply.kind = "json") =>
                                 (/\ result.supportingScore =
                                        (IF reply.ss \in 0..100 THEN reply.ss
                                         ELSE NeutralScore)
                                  /\ result.opposingScore =
                                        (IF reply.os \in 0..100 THEN reply.os
                                         ELSE NeutralScore)
                                  /\ result.winner =
                                        (IF reply.winner \in
                                              {"supporting", "opposing", "draw"}
                                         THEN reply.winner ELSE "draw"))))]_vars

\* the stored result is the verdict with the unknown winner and the score
\* of 101, after the replacement
C29_Witness ==
    /\ judgeOn
    /\ dbResult = [winner |-> "draw", supportingScore |-> NeutralScore,
                   opposingScore |-> 60]
    /\ lastEnd.winner = "draw"

\* ------------------------------------------------------------------ C30
\* C30: the result in every debate_end carries the end reason endDebate
\* was called with, whoever produced the result, and by the time the
\* debate_end goes out the final status and a result are stored.
C30_EndCarriesReason ==
    [][(endsQueued' = endsQueued + 1) =>
           (/\ lastEnd'.reason = lastEnd'.cause
            /\ dbStatus' = lastEnd'.status
            /\ dbResult' # NoResult)]_vars

\* ------------------------------------------------------------------ C31
\* C31: a step in which endDebate ends the session leaves none of the four
\* timers armed and the connection of neither participant open.
C31_EndStopsTimersClosesConns ==
    [][(endsQueued' = endsQueued + 1) =>
           (/\ WaitingTimer' # "armed"
            /\ TimeoutTimer' # "armed"
            /\ InactivityTimer' # "armed"
            /\ MaxDurationTimer' # "armed"
            /\ \A s \in Slots : reader'[s] # "reading")]_vars

\* ------------------------------------------------------------------ C32
\* C32: the session leaves the registry only while fewer than two
\* participants have joined; a session whose two slots are filled is never
\* removed and is never marked timeout while it still waits for its start.
C32_FullSessionKept ==
    [][/\ (inRegistry /\ ~inRegistry') => (BotA = NoBot \/ BotB = NoBot)
       /\ (status = "waiting" /\ BotA # NoBot /\ BotB # NoBot)
              => (status' \in {"waiting", "active"})]_vars

\* ------------------------------------------------------------------ C33
\* C33: while the session is active its max-duration countdown is pending
\* (the timer is armed or its callback has been started) and the session is
\* in the registry, where the callback's endDebate finds it; so every active
\* session still has its end ahead of it.
C33_ActiveHasDeadline ==
    (status = "active") =>
        /\ inRegistry
        /\ (MaxDurationTimer = "armed" \/ cbPending["maxduration"] > 0)

\* ------------------------------------------------------------------ C34
\* C34: a submission answered CONTENT_TOO_SHORT or CONTENT_TOO_LONG adds no
\* transcript entry and leaves the speech timer and the inactivity timer,
\* and everything else of the session, as they were.
C34_LengthRejectChangesNothing ==
    [][(\A s \in Slots, speaker \in {BotA.ident, BotB.ident},
           clen \in ContentLens :
          \A k \in KeysOf(s) :
            (/\ lastReply'.kind = "speech"
             /\ lastReply'.code \in {"CONTENT_TOO_SHORT", "CONTENT_TOO_LONG"}
             /\ lastReply' = SpeechReply(s, speaker, k, clen)
             /\ HandleSpeechOf(s, speaker, k, clen)) =>
            UNCHANGED << logVars, currentRound, status, dbStatus,
                         timerVars, cbVars, dbResult, endVars,
                         broadcast >>)]_vars

\* ------------------------------------------------------------------ C35
\* C35: the observer queue never deadlocks: whenever a login holds the
\* registry lock to enqueue its debate_waiting event, the login can send or
\* the relay can take a step, so the login completes and the queue drains.
C35_QueueNeverDeadlocks ==
    (loginPc = "locked") => (LoginCanSend \/ RelayCanStep)

\* ------------------------------------------------------------------ C36
\* C36: every speech timer that can still fire is the one the session's
\* timer handle refers to: no countdown is running outside the handle, so
\* at most one is pending.
C36_OneSpeechTimer ==
    strayTimers = 0

\* ------------------------------------------------------------------ C37
\* C37: debate_end is the last event of the session on the observer queue:
\* no debate_update and no debate_start is queued after a debate_end.
C37_EndIsLastEvent ==
    \A i, j \in 1..Len(broadcast) :
        (i < j /\ broadcast[i] = "debate_end") =>
            (broadcast[j] \notin {"debate_update", "debate_start"})

\* ------------------------------------------------------------------ C38
\* C38: once sides are assigned, the transcript has two entries for each
\* round passed plus one if the supporting participant spoke last; its round
\* numbers do not decrease, and each round has one supporting entry followed
\* by at most one opposing entry.
C38_LogMatchesRound ==
    (SupportingBot \in Slots) =>
        /\ Len(DebateLog) = 2 * (currentRound - 1)
               + (IF LastSpeaker = SupportingIdent THEN 1 ELSE 0)
        /\ \A i, j \in 1..Len(DebateLog) :
               (i < j) => (DebateLog[i].round <= DebateLog[j].round)
        /\ \A i \in 1..Len(DebateLog) :
               LET same == {j \in 1..Len(DebateLog) :
                               DebateLog[j].round = DebateLog[i].round}
                   sup == {j \in same : DebateLog[j].side = "supporting"}
                   opp == {j \in same : DebateLog[j].side = "opposing"}
               IN  /\ Cardinality(sup) = 1
                   /\ Cardinality(opp) <= 1
                   /\ \A j \in sup, k \in opp : j < k

\* ------------------------------------------------------------------ C39
\* C39: the session goes active, and debate_start is sent, only while the
\* connections of both participants are still open.
C39_StartsOnlyConnected ==
    [][(status # "active" /\ status' = "active") =>
           (\A s \in Slots : reader[s] = "reading")]_vars

\* ------------------------------------------------------------------ C40
\* C40 as stated: the two scores of the fallback scorer are integers in
\* 0..100 with sum 100 that differ by at most 5, and the winner is neither
\* supporting nor opposing.
C40_FallbackScoresClose ==
    (scoreOut # NoResult) =>
        /\ scoreOut.supportingScore \in 0..100
        /\ scoreOut.opposingScore \in 0..100
        /\ scoreOut.supportingScore + scoreOut.opposingScore = 100
        /\ scoreOut.supportingScore - scoreOut.opposingScore <= WinMargin
        /\ scoreOut.opposingScore - scoreOut.supportingScore <= WinMargin
        /\ scoreOut.winner \notin {"supporting", "opposing"}

\* C40 amended: the two scores are integers in 0..100 with sum 100 that
\* differ by at most 6, and by at most 4 when both sides have entries; the
\* winner is neither supporting nor opposing.
C40_FallbackNeverPicksSide ==
    (scoreOut # NoResult) =>
        LET diff == scoreOut.supportingScore - scoreOut.opposingScore
        IN  /\ scoreOut.supportingScore \in 0..100
            /\ scoreOut.opposingScore \in 0..100
            /\ scoreOut.supportingScore + scoreOut.opposingScore = 100
            /\ diff \in (0 - 6)..6
            /\ (scoreIn[1] > 0 /\ scoreIn[2] > 0) => (diff \in (0 - 4)..4)
            /\ scoreOut.winner \notin {"supporting", "opposing"}

\* the scorer ran on a transcript without supporting entries and with three
\* opposing ones: the scores are 47 and 53
C40_Witness ==
    /\ scoreOut # NoResult
    /\ scoreIn = << 0, 3 >>
    /\ scoreOut.supportingScore = 47
    /\ scoreOut.opposingScore = 53
    /\ scoreOut.winner = "none"

====
